---- MODULE Spec2Model ----
(***************************************************************************)
(* The filter-and-reshape pipeline of the DK housing affordability         *)
(* dashboard (src/app.py).  One run of the script loads the panel dataset, *)
(* builds the recency map and the Recency column, and renders the one page *)
(* the sidebar selects, with the values its widgets return.                *)
(*                                                                         *)
(* A DataFrame is a sequence of rows, a row a record of its columns.       *)
(* Metric values are exact decimals held as integers in thousandths        *)
(* (100.0 is 100000).                                                      *)
(***************************************************************************)
EXTENDS Integers, Sequences, FiniteSets, TLC

VARIABLES
    sales_data,       \* the panel dataset (app.py:29), with Recency after load
    indexed_development, \* the indexed-development dataset (app.py:35)
    unique_years,     \* historical years, most recent first after load
    future_years,     \* years that have a predicted row
    annual_recency,   \* the recency map: year -> rank
    files,            \* the model-metrics parquet files in "Output data"
    income_fit_metrics, \* fit metrics of the income model (app.py:30)
    price_fit_metrics,  \* fit metrics of the sales-price model (app.py:31)
    price_imp_metrics,  \* metrics of the price imputation (app.py:32)
    pc,               \* "boot" | "loaded" | "rendered": where the script run is
    page,             \* the page the run dispatched to
    sel,              \* the values the page's sidebar widgets returned
    data_to_display,  \* the page's view (or its pivoted table)
    charts,           \* what the page handed to its charts
    error,            \* the exception that ended the page, or "none"
    warnings          \* the warnings the page surfaced with st.warning

vars == <<sales_data, indexed_development, unique_years, future_years,
          annual_recency, files, income_fit_metrics, price_fit_metrics,
          price_imp_metrics, pc, page, sel, data_to_display, charts, error,
          warnings>>

(***************************************************************************)
(* Bounds of the model.                                                    *)
(***************************************************************************)
\* Rows of a dataset of the by-municipality pages.
MaxRows == 3
\* Rows of a dataset of the historical-changes page.
MaxHistRows == 4
\* Rows of the selected year in a dataset of the overview pages.
MaxPool == 3
\* Options in the list a resolver is called with.
MaxEntries == 2

(***************************************************************************)
(* Values.                                                                 *)
(***************************************************************************)
Scale == 10 ^ 3

Actual == "Actual price"
Estimated == "Estimated price"
Predicted == "Predicted price"
PriceTypes == {Actual, Estimated, Predicted}

NationalAverage == "National average"

\* Municipality names in the order pandas sorts them (by code point).
MncpOrder ==
    <<"Aalborg", "Aarhus", "Esbjerg", "Horsens", "Kolding", "København",
      NationalAverage, "Odense", "Randers", "Roskilde", "Vejle">>

MncpRank(m) == CHOOSE i \in 1..Len(MncpOrder) : MncpOrder[i] = m

Range(f) == {f[x] : x \in DOMAIN f}

SetMax(S) == CHOOSE x \in S : \A y \in S : y <= x

SetMin(S) == CHOOSE x \in S : \A y \in S : x <= y

\* n / d rounded to the nearest integer, ties to the even one (d > 0).
RoundHalfEven(n, d) ==
    LET q == n \div d
        r == n % d
    IN  IF 2 * r < d THEN q
        ELSE IF 2 * r > d THEN q + 1
        ELSE IF q % 2 = 0 THEN q ELSE q + 1

\* np.round(v, decimals) of a value in thousandths.
NpRound(v, decimals) ==
    LET unit == 10 ^ (3 - decimals)
    IN  RoundHalfEven(v, unit) * unit

(***************************************************************************)
(* DataFrame helpers.                                                      *)
(***************************************************************************)
\* Series.unique(): the distinct values in order of first appearance.
RECURSIVE UniqueSeq(_)
UniqueSeq(s) ==
    IF s = <<>> THEN <<>>
    ELSE LET init == UniqueSeq(SubSeq(s, 1, Len(s) - 1))
             last == s[Len(s)]
         IN  IF last \in Range(init) THEN init ELSE Append(init, last)

Column(df, col) == [i \in 1..Len(df) |-> df[i][col]]

\* The index i put into order (indices sorted by keys) behind every index
\* whose key is not greater.
RECURSIVE InsertIndex(_, _, _)
InsertIndex(order, keys, i) ==
    IF order = <<>> THEN <<i>>
    ELSE LET last == order[Len(order)]
         IN  IF keys[i] < keys[last]
             THEN Append(InsertIndex(SubSeq(order, 1, Len(order) - 1), keys, i), last)
             ELSE Append(order, i)

\* The indices 1..n of keys in ascending order of key, equal keys in the
\* order of the input (a stable argsort).
RECURSIVE ArgSort(_, _)
ArgSort(keys, n) ==
    IF n = 0 THEN <<>> ELSE InsertIndex(ArgSort(keys, n - 1), keys, n)

Negated(keys) == [i \in DOMAIN keys |-> 0 - keys[i]]

Take(s, order) == [i \in 1..Len(order) |-> s[order[i]]]

\* list.sort(reverse=True) of a list of integers.
SortReverse(s) == Take(s, ArgSort(Negated(s), Len(s)))

\* list.sort() of a list of integers.
SortAscending(s) == Take(s, ArgSort(s, Len(s)))

\* A sort that leaves the rows as they are.
SortValuesKeepOrder(df, col, ascending) == df

\* df.sort_values(col, ascending=...) on a numeric column: numpy's sort is an
\* insertion sort on the short arrays of the model and pandas reverses the
\* input around a descending sort, so rows with equal keys keep their order.
SortValues(df, col, ascending) ==
    LET keys == Column(df, col)
    IN  Take(df, ArgSort(IF ascending THEN keys ELSE Negated(keys), Len(df)))

\* df[cols]: the projection of every row to the listed columns.
Project(df, cols) == [i \in 1..Len(df) |-> [c \in cols |-> df[i][c]]]

(***************************************************************************)
(* Datasets.  The parquet files are the program's input: a dataset is the  *)
(* rows of a set of (Year, Municipality) keys, one row per key, in the     *)
(* order of the file (by municipality, then by year).                      *)
(***************************************************************************)
\* A row of FinalSalesAndIncome.parquet with price p and price index i; the
\* other metric columns of the row follow from the two.
Row(y, m, t, p, i) ==
    [Year |-> y, Municipality |-> m, PriceType |-> t,
     AvgSalesPrice |-> p,
     AvgSalesPriceIdx |-> i,
     AvgSalesPriceChange |-> i - 100 * Scale,
     M2AffordedTotal |-> (p \div 800) * 7,
     M2AffordedMen |-> (p \div 800) * 7 + 255,
     M2AffordedWomen |-> (p \div 800) * 6,
     YearsoBuy50M2Total |-> (p \div 300) * 11,
     YearsoBuy50M2Men |-> (p \div 300) * 10,
     YearsoBuy50M2Women |-> (p \div 300) * 11 + 1005,
     AvgM2AffordedTotalChange |-> 100 * Scale - i,
     NationalDisposableTotalAvg |-> 200 * Scale]

\* The row of IndexedDevelopment.parquet for a row of the sales panel.
IndexedRow(r) ==
    [Year |-> r.Year, Municipality |-> r.Municipality, PriceType |-> r.PriceType,
     AvgSalesPriceIdx |-> r.AvgSalesPriceIdx,
     AvgDispIncomeIdx |-> r.AvgSalesPriceIdx - 1115,
     GDPIdx |-> 100 * Scale + (r.AvgSalesPriceIdx - 100 * Scale) \div 2]

FileKey(k) == MncpRank(k[2]) * 10000 + k[1]

\* The keys of K in the order of the file.
RECURSIVE KeySeq(_)
KeySeq(K) ==
    IF K = {} THEN <<>>
    ELSE LET k == CHOOSE x \in K : \A y \in K : FileKey(x) <= FileKey(y)
         IN  <<k>> \o KeySeq(K \ {k})

\* The sets of at most n keys.
KeySets(keys, n) == {K \in SUBSET keys : K # {} /\ Cardinality(K) <= n}

\* Datasets of the by-municipality pages: the price type of every row is
\* free, its metrics follow from its key.
ViewYears == 2021..2023
ViewMncps == {"København", NationalAverage}

ViewPrice(y, m) == (y - 2000) * 1000 * Scale + MncpRank(m) * 1255

ViewIdx(y, m) == 100 * Scale + (y - 2020) * 2345 + MncpRank(m) * 115

ViewData(K, f) ==
    LET ks == KeySeq(K)
    IN  [j \in 1..Len(ks) |->
            Row(ks[j][1], ks[j][2], f[ks[j]],
                ViewPrice(ks[j][1], ks[j][2]), ViewIdx(ks[j][1], ks[j][2]))]

\* The script needs a historical row: last_hist_year = unique_years[0].
HasHistory(df) == \E j \in 1..Len(df) : df[j].PriceType # Predicted

ViewDatasets ==
    {d \in UNION {{ViewData(K, f) : f \in [K -> PriceTypes]} :
                     K \in KeySets(ViewYears \X ViewMncps, MaxRows)} :
        HasHistory(d)}

(***************************************************************************)
(* Load: the module-level code of app.py, lines 29-127.                    *)
(***************************************************************************)
NoValue == <<>>

\* unique_years with the sort of line 63 left out.
UniqueYearsUnsorted(df) ==
    UniqueSeq(Column(SelectSeq(df, LAMBDA r : r.PriceType # Predicted), "Year"))

\* unique_years without unique(): one entry per row.
UniqueYearsRepeated(df) ==
    SortReverse(Column(SelectSeq(df, LAMBDA r : r.PriceType # Predicted), "Year"))

\* unique_years after the sort of line 63: the distinct years of the rows
\* that are not predicted, most recent first.
UniqueYears(df) ==
    SortReverse(UniqueSeq(Column(SelectSeq(df, LAMBDA r : r.PriceType # Predicted), "Year")))

\* future_years: the distinct years of the predicted rows, in file order.
FutureYears(df) ==
    UniqueSeq(Column(SelectSeq(df, LAMBDA r : r.PriceType = Predicted), "Year"))

\* np.arange(1, n + 1)
NPossibleYears(n) == [j \in 1..n |-> j]

\* dict(zip(keys, values)): a key given twice keeps its last value.
ZipDict(keys, values) ==
    LET n == IF Len(keys) < Len(values) THEN Len(keys) ELSE Len(values)
    IN  [k \in {keys[j] : j \in 1..n} |->
            values[SetMax({j \in 1..n : keys[j] = k})]]

\* A recency map of calendar distances: the most recent year has rank 1, a
\* year d years before it rank d + 1.
AnnualRecencyByDistance(years) ==
    [y \in Range(years) |-> SetMax(Range(years)) - y + 1]

\* annual_recency of line 75.
AnnualRecency(years) == ZipDict(years, NPossibleYears(Len(years)))

\* The Recency column with the rank after the oldest for a year not in the
\* map.
MapRecencyOldest(df, recency) ==
    [j \in 1..Len(df) |->
        [c \in DOMAIN df[j] \cup {"Recency"} |->
            IF c = "Recency"
            THEN IF df[j].Year \in DOMAIN recency THEN recency[df[j].Year]
                 ELSE Cardinality(DOMAIN recency) + 1
            ELSE df[j][c]]]

\* df["Recency"] = df["Year"].map(recency), then fillna(0).
MapRecency(df, recency) ==
    [j \in 1..Len(df) |->
        [c \in DOMAIN df[j] \cup {"Recency"} |->
            IF c = "Recency"
            THEN IF df[j].Year \in DOMAIN recency THEN recency[df[j].Year] ELSE 0
            ELSE df[j][c]]]

\* The file's rows: the dataset as read, without the Recency column.
AsRead(df) ==
    [j \in 1..Len(df) |-> [c \in DOMAIN df[j] \ {"Recency"} |-> df[j][c]]]

(***************************************************************************)
(* The model-metrics tables.  A table is its index, its columns and its    *)
(* cells: cells[i][c] is the value in row i, column c.                     *)
(***************************************************************************)
Table(index, columns, cells) == [index |-> index, columns |-> columns, cells |-> cells]

\* The user-friendly names of the metrics columns.
new_col_names ==
    [c \in {"ModelR2_Total", "ModelMAPE_Total", "PctAccuracy_Total",
            "ModelR2_SalesPrice", "ModelMAPE_SalesPrice", "PctAccuracy_SalesPrice",
            "VariableName", "ModelMSE", "MeanValue", "ModelRMSE",
            "ModelNormalizedRMSE", "PctAccuracy"} |->
        CASE c = "ModelR2_Total" -> "Total income, R² (%)"
          [] c = "ModelMAPE_Total" -> "Total income, MAPE (%)"
          [] c = "PctAccuracy_Total" -> "Total income, Accuracy (%)"
          [] c = "ModelR2_SalesPrice" -> "Sales price, R² (%)"
          [] c = "ModelMAPE_SalesPrice" -> "Sales price, MAPE (%)"
          [] c = "PctAccuracy_SalesPrice" -> "Sales price, Accuracy (%)"
          [] c = "VariableName" -> "Variable name"
          [] c = "ModelMSE" -> "Mean squared error (MSE)"
          [] c = "MeanValue" -> "Mean value"
          [] c = "ModelRMSE" -> "RMSE"
          [] c = "ModelNormalizedRMSE" -> "Normalized RMSE (%)"
          [] c = "PctAccuracy" -> "Accuracy (%)"]

\* df.rename(columns=mapper): a column the mapper does not name keeps its name.
Renamed(c, mapper) == IF c \in DOMAIN mapper THEN mapper[c] ELSE c

RenameColumns(t, mapper) ==
    Table(t.index,
          [j \in 1..Len(t.columns) |-> Renamed(t.columns[j], mapper)],
          [i \in Range(t.index) |->
              [n \in {Renamed(c, mapper) : c \in Range(t.columns)} |->
                  t.cells[i][CHOOSE c \in Range(t.columns) : Renamed(c, mapper) = n]]])

\* df[df[col] == value]
RowsWhere(t, col, value) ==
    Table(SelectSeq(t.index, LAMBDA i : t.cells[i][col] = value), t.columns,
          [i \in {k \in Range(t.index) : t.cells[k][col] = value} |-> t.cells[i]])

\* df.transpose()
Transpose(t) ==
    Table(t.columns, t.index,
          [c \in Range(t.columns) |-> [i \in Range(t.index) |-> t.cells[i][c]]])

\* df.drop(label)
DropRow(t, label) ==
    Table(SelectSeq(t.index, LAMBDA i : i # label), t.columns,
          [i \in Range(t.index) \ {label} |-> t.cells[i]])

\* df.columns = names, for a table with as many columns as names.
SetColumns(t, names) ==
    Table(t.index, names,
          [i \in Range(t.index) |->
              [n \in Range(names) |->
                  t.cells[i][t.columns[CHOOSE j \in 1..Len(names) : names[j] = n]]]])

\* df[cols_to_keep]
SelectColumns(t, cols_to_keep) ==
    Table(t.index, cols_to_keep,
          [i \in Range(t.index) |-> [c \in Range(cols_to_keep) |-> t.cells[i][c]]])

\* df[df.index.isin(allowed)]
IndexIsin(t, allowed) ==
    Table(SelectSeq(t.index, LAMBDA i : i \in allowed), t.columns,
          [i \in Range(t.index) \cap allowed |-> t.cells[i]])

\* The imputation table keeps the row of AvgSalesPrice, is transposed, loses
\* its first row (the variable name) and gets one column name.
ImputationTransposed(t) ==
    LET kept == RowsWhere(t, "Variable name", "AvgSalesPrice")
        transposed == Transpose(kept)
    IN  SetColumns(DropRow(transposed, transposed.index[1]), <<"Average sales price">>)

\* The parquet files of the metrics: one municipality per fit-metrics file,
\* one row per variable in the imputation file.
MetricValues == {90 * Scale, 95 * Scale}

FitFile(columns, values) ==
    Table(<<0>>, <<"Municipality">> \o columns,
          [i \in {0} |->
              [c \in {"Municipality"} \cup Range(columns) |->
                  IF c = "Municipality" THEN "Aarhus"
                  ELSE values[CHOOSE j \in 1..Len(columns) : columns[j] = c]]])

IncomeColumns == <<"ModelR2_Total", "ModelMAPE_Total", "PctAccuracy_Total">>
SalesColumns == <<"ModelR2_SalesPrice", "ModelMAPE_SalesPrice", "PctAccuracy_SalesPrice">>
ImputationColumns ==
    <<"VariableName", "ModelMSE", "MeanValue", "ModelRMSE", "ModelNormalizedRMSE",
      "PctAccuracy">>

ImputationRow(variable, nrmse, accuracy) ==
    [c \in Range(ImputationColumns) |->
        CASE c = "VariableName" -> variable
          [] c = "ModelNormalizedRMSE" -> nrmse
          [] c = "PctAccuracy" -> accuracy
          [] OTHER -> 100 * Scale]

\* The imputation file has exactly one row of AvgSalesPrice, alone or next
\* to the row of another variable.
ImputationFiles ==
    UNION {{Table(<<0>>, ImputationColumns, [i \in {0} |-> ImputationRow("AvgSalesPrice", n, a)]),
            Table(<<0, 1>>, ImputationColumns,
                  [i \in {0, 1} |-> IF i = 0 THEN ImputationRow("AvgSalesPrice", n, a)
                                    ELSE ImputationRow("AvgDispIncomeTotal", a, n)]),
            Table(<<0, 1>>, ImputationColumns,
                  [i \in {0, 1} |-> IF i = 1 THEN ImputationRow("AvgSalesPrice", n, a)
                                    ELSE ImputationRow("AvgDispIncomeTotal", a, n)])} :
           n \in MetricValues, a \in MetricValues}

MetricFiles ==
    {[IncomeModelFitMetrics |-> FitFile(IncomeColumns, iv),
      SalesModelFitMetrics |-> FitFile(SalesColumns, sv),
      SalesPriceImputationFitMetrics |-> imp] :
         iv \in [1..3 -> MetricValues], sv \in [1..3 -> MetricValues],
         imp \in ImputationFiles}

SampleFiles ==
    [IncomeModelFitMetrics |-> FitFile(IncomeColumns, <<90 * Scale, 95 * Scale, 90 * Scale>>),
     SalesModelFitMetrics |-> FitFile(SalesColumns, <<95 * Scale, 90 * Scale, 95 * Scale>>),
     SalesPriceImputationFitMetrics |->
         Table(<<0>>, ImputationColumns,
               [i \in {0} |-> ImputationRow("AvgSalesPrice", 90 * Scale, 95 * Scale)])]

BootFiles(d, f) ==
    /\ sales_data = d
    /\ files = f
    /\ income_fit_metrics = f.IncomeModelFitMetrics
    /\ price_fit_metrics = f.SalesModelFitMetrics
    /\ price_imp_metrics = f.SalesPriceImputationFitMetrics
    /\ indexed_development = [j \in 1..Len(d) |-> IndexedRow(d[j])]
    /\ unique_years = NoValue
    /\ future_years = NoValue
    /\ annual_recency = NoValue
    /\ pc = "boot"
    /\ page = "none"
    /\ sel = NoValue
    /\ data_to_display = NoValue
    /\ charts = NoValue
    /\ error = "none"
    /\ warnings = {}

Boot(d) == BootFiles(d, SampleFiles)

Init == \E d \in ViewDatasets : Boot(d)

Load ==
    /\ pc = "boot"
    /\ unique_years' = UniqueYears(sales_data)
    /\ future_years' = FutureYears(sales_data)
    /\ annual_recency' = AnnualRecency(unique_years')
    /\ sales_data' = MapRecency(sales_data, annual_recency')
    /\ indexed_development' = MapRecency(indexed_development, annual_recency')
    /\ income_fit_metrics' = RenameColumns(income_fit_metrics, new_col_names)
    /\ price_fit_metrics' = RenameColumns(price_fit_metrics, new_col_names)
    /\ price_imp_metrics' =
           ImputationTransposed(RenameColumns(price_imp_metrics, new_col_names))
    /\ pc' = "loaded"
    /\ UNCHANGED <<files, page, sel, data_to_display, charts, error, warnings>>

\* The next interaction runs the script again from the top, on the same files.
Rerun ==
    /\ pc = "rendered"
    /\ sales_data' = AsRead(sales_data)
    /\ indexed_development' = AsRead(indexed_development)
    /\ unique_years' = NoValue
    /\ future_years' = NoValue
    /\ annual_recency' = NoValue
    /\ income_fit_metrics' = files.IncomeModelFitMetrics
    /\ price_fit_metrics' = files.SalesModelFitMetrics
    /\ price_imp_metrics' = files.SalesPriceImputationFitMetrics
    /\ UNCHANGED files
    /\ pc' = "boot"
    /\ page' = "none"
    /\ sel' = NoValue
    /\ data_to_display' = NoValue
    /\ charts' = NoValue
    /\ error' = "none"
    /\ warnings' = {}

(***************************************************************************)
(* Sidebar widgets.  A widget returns one of the options it was given; the *)
(* functions of app.py turn the option into the value the page uses.       *)
(***************************************************************************)
price_type_combinations ==
    <<"Historical data incl. estimates",
      "Historical data excl. estimates",
      "Historical data and predictions">>

\* filter_metric: the column of the selected label, None for any other label.
FilterMetric(selected_metric) ==
    IF selected_metric = "Actual price" THEN "AvgSalesPrice"
    ELSE IF selected_metric = "Price index" THEN "AvgSalesPriceIdx"
    ELSE IF selected_metric = "Buyable m² with annual income" THEN "M2AffordedTotal"
    ELSE IF selected_metric = "Years of income to buy 50 m²" THEN "YearsoBuy50M2Total"
    ELSE "None"

\* filter_price_type_new: the branches that bind allowed_types.
PriceTypeBound(selected_combination) ==
    selected_combination \in Range(price_type_combinations)

\* allowed_types with the predictions left out of the widest combination.
FilterPriceTypeNewFlat(selected_combination) ==
    IF selected_combination = "Historical data excl. estimates"
    THEN {Actual}
    ELSE {Actual, Estimated}

\* filter_price_type_new: allowed_types of a combination that binds it.
FilterPriceTypeNew(selected_combination) ==
    IF selected_combination = "Historical data incl. estimates"
    THEN {Actual, Estimated}
    ELSE IF selected_combination = "Historical data excl. estimates"
    THEN {Actual}
    ELSE {Actual, Estimated, Predicted}

\* dataset[location_var].unique()
PossibleEntries(df) == UniqueSeq(Column(df, "Municipality"))

\* filter_by_location with every municipality for an empty selection.
FilterByLocationAll(selected_entries) ==
    IF selected_entries = {}
    THEN [selected_entries |-> Range(MncpOrder), warnings |-> {}]
    ELSE [selected_entries |-> selected_entries, warnings |-> {}]

\* filter_by_location: the selection, or the national average with a warning
\* when nothing is selected.
FilterByLocation(selected_entries) ==
    IF selected_entries = {}
    THEN [selected_entries |-> {NationalAverage}, warnings |-> {"No selected municipality"}]
    ELSE [selected_entries |-> selected_entries, warnings |-> {}]

(***************************************************************************)
(* The view of the by-municipality pages.                                  *)
(***************************************************************************)
\* The recency filter with < for <=.
FilterRecencyStrict(df, n_years) == SelectSeq(df, LAMBDA r : r.Recency < n_years)

\* The recency filter as a window of ranks 1..n_years.
FilterRecencyRanked(df, n_years) ==
    SelectSeq(df, LAMBDA r : 1 <= r.Recency /\ r.Recency <= n_years)

\* df[df["Recency"] <= n_years]
FilterRecency(df, n_years) == SelectSeq(df, LAMBDA r : r.Recency <= n_years)

\* The municipality filter with the national average always let through.
FilterLocationsWithNational(df, selected_locations) ==
    SelectSeq(df, LAMBDA r : r.Municipality \in selected_locations \cup {NationalAverage})

\* df[df["Municipality"].isin(selected_locations)]
FilterLocations(df, selected_locations) ==
    SelectSeq(df, LAMBDA r : r.Municipality \in selected_locations)

\* df[df["PriceType"].isin(price_types)]
FilterPriceTypes(df, price_types) ==
    SelectSeq(df, LAMBDA r : r.PriceType \in price_types)

\* The view with each filter applied to df and not to the view so far: the
\* last filter alone.
FilterViewLastOnly(df, n_years, selected_locations, price_types) ==
    FilterPriceTypes(df, price_types)

\* The three filters of a by-municipality page, in the order of the code.
FilterView(df, n_years, selected_locations, price_types) ==
    FilterPriceTypes(
        FilterLocations(FilterRecency(df, n_years), selected_locations),
        price_types)

\* df[col] = np.round(df[col], decimals)
RoundColumn(df, col, decimals) ==
    [j \in 1..Len(df) |-> [df[j] EXCEPT ![col] = NpRound(@, decimals)]]

RECURSIVE RoundColumns(_, _, _)
RoundColumns(df, cols, decimals) ==
    IF cols = <<>> THEN df
    ELSE RoundColumns(RoundColumn(df, cols[1], decimals), Tail(cols), decimals)

Shared == <<sales_data, indexed_development, unique_years, future_years, annual_recency>>

\* The model-metrics tables and the files they are read from.
Metrics == <<files, income_fit_metrics, price_fit_metrics, price_imp_metrics>>

\* page_avg_by_mncp: "Pricing by municipality".
PageAvgByMncp ==
    /\ pc = "loaded"
    /\ \E n_years \in Range(annual_recency),
          combination \in Range(price_type_combinations),
          label \in {"Actual price", "Price index"},
          picked \in SUBSET Range(PossibleEntries(sales_data)) :
        LET price_types == FilterPriceTypeNew(combination)
            metric_for_use == FilterMetric(label)
            location == FilterByLocation(picked)
            filtered == FilterView(sales_data, n_years,
                                   location.selected_entries, price_types)
            sorted == SortValues(filtered, "Year", FALSE)
            projected == Project(sorted, {"Year", "Municipality", metric_for_use})
            rounded == RoundColumn(projected, metric_for_use,
                                   IF metric_for_use = "AvgSalesPrice" THEN 0 ELSE 2)
            metric_for_use_txt ==
                IF metric_for_use = "AvgSalesPrice"
                THEN "Average price per m²"
                ELSE "Average price per m² (indexed)"
            unique_mncp == UniqueSeq(Column(rounded, "Municipality"))
        IN  /\ page' = "Pricing by municipality"
            /\ sel' = [n_years |-> n_years, price_types |-> price_types,
                       metric_for_use |-> metric_for_use, picked |-> picked,
                       selected_locations |-> location.selected_entries]
            /\ warnings' = location.warnings
            /\ data_to_display' = rounded
            /\ IF Len(unique_mncp) > 1
               THEN /\ error' = "none"
                    /\ charts' = [y |-> metric_for_use, color |-> "Municipality",
                                  title |-> <<metric_for_use_txt, " by municipality and year">>]
               ELSE IF Len(unique_mncp) = 1
               THEN /\ error' = "none"
                    /\ charts' = [y |-> metric_for_use, color |-> "None",
                                  title |-> <<metric_for_use_txt, " in ", unique_mncp[1], " over time">>]
               ELSE \* unique_mncp[0] of an empty array
                    /\ error' = "IndexError"
                    /\ charts' = NoValue
    /\ pc' = "rendered"
    /\ UNCHANGED <<Shared, Metrics>>

\* page_afford_by_mncp: "Affordability by municipality".
PageAffordByMncp ==
    /\ pc = "loaded"
    /\ \E n_years \in Range(annual_recency),
          label \in {"Buyable m² with annual income", "Years of income to buy 50 m²"},
          combination \in Range(price_type_combinations),
          picked \in SUBSET Range(PossibleEntries(sales_data)) :
        LET metric_for_use == FilterMetric(label)
            price_types == FilterPriceTypeNew(combination)
            location == FilterByLocation(picked)
            filtered == FilterView(sales_data, n_years,
                                   location.selected_entries, price_types)
            sorted == SortValues(filtered, "Year", FALSE)
            projected == Project(sorted, {"Year", "Municipality",
                                          "M2AffordedTotal", "YearsoBuy50M2Total"})
            rounded == RoundColumn(projected, metric_for_use, 2)
            chart_title ==
                IF metric_for_use = "M2AffordedTotal"
                THEN "Number of m² that can be bought with annual disposable income"
                ELSE "Number of years of disposable income needed to buy 50 m²"
            unique_mncp == UniqueSeq(Column(rounded, "Municipality"))
        IN  /\ page' = "Affordability by municipality"
            /\ sel' = [n_years |-> n_years, price_types |-> price_types,
                       metric_for_use |-> metric_for_use, picked |-> picked,
                       selected_locations |-> location.selected_entries]
            /\ warnings' = location.warnings
            /\ data_to_display' = rounded
            /\ IF Len(unique_mncp) > 1
               THEN /\ error' = "none"
                    /\ charts' = [y |-> metric_for_use, color |-> "Municipality",
                                  title |-> <<chart_title>>]
               ELSE IF Len(unique_mncp) = 1
               THEN /\ error' = "none"
                    /\ charts' = [y |-> metric_for_use, color |-> "None",
                                  title |-> <<chart_title, " in ", unique_mncp[1]>>]
               ELSE \* unique_mncp[0] of an empty array
                    /\ error' = "IndexError"
                    /\ charts' = NoValue
    /\ pc' = "rendered"
    /\ UNCHANGED <<Shared, Metrics>>

GenderColumns ==
    <<"M2AffordedMen", "M2AffordedWomen", "YearsoBuy50M2Men", "YearsoBuy50M2Women">>

\* page_afford_by_mncp_gen: "Affordability by gender".
PageAffordByMncpGen ==
    /\ pc = "loaded"
    /\ \E n_years \in Range(annual_recency),
          label \in {"Buyable m² with annual income", "Years of income to buy 50 m²"},
          combination \in Range(price_type_combinations),
          selected_loc \in Range(PossibleEntries(sales_data)) :
        LET metric_for_use == FilterMetric(label)
            price_types == FilterPriceTypeNew(combination)
            filtered == FilterView(sales_data, n_years, {selected_loc}, price_types)
            sorted == SortValues(filtered, "Year", FALSE)
            projected == Project(sorted, {"Year", "Municipality"} \cup Range(GenderColumns))
            rounded == RoundColumns(projected, GenderColumns, 2)
        IN  /\ page' = "Affordability by gender"
            /\ warnings' = {}
            /\ IF "København" \notin Range(PossibleEntries(sales_data))
               THEN \* possible_entries.index(default_val) of filter_by_single_location
                    /\ sel' = [n_years |-> n_years, price_types |-> price_types,
                               metric_for_use |-> metric_for_use]
                    /\ data_to_display' = NoValue
                    /\ error' = "ValueError"
                    /\ charts' = NoValue
               ELSE /\ sel' = [n_years |-> n_years, price_types |-> price_types,
                               metric_for_use |-> metric_for_use,
                               selected_locations |-> {selected_loc}]
                    /\ data_to_display' = rounded
                    /\ IF rounded = <<>>
                       THEN \* data_to_display["Municipality"].iloc[0] of no rows
                            /\ error' = "IndexError"
                            /\ charts' = NoValue
                       ELSE /\ error' = "none"
                            /\ charts' =
                                 [y |-> IF metric_for_use = "M2AffordedTotal"
                                        THEN <<"M2AffordedMen", "M2AffordedWomen">>
                                        ELSE <<"YearsoBuy50M2Men", "YearsoBuy50M2Women">>,
                                  color |-> "None",
                                  title |-> <<rounded[1].Municipality>>]
    /\ pc' = "rendered"
    /\ UNCHANGED <<Shared, Metrics>>

IndexColumns == <<"AvgSalesPriceIdx", "AvgDispIncomeIdx", "GDPIdx">>

\* page_indexed_dev: "Indexed developments", on the indexed-development
\* dataset.
PageIndexedDev ==
    /\ pc = "loaded"
    /\ \E n_years \in Range(annual_recency),
          combination \in Range(price_type_combinations),
          selected_loc \in Range(PossibleEntries(indexed_development)) :
        LET price_types == FilterPriceTypeNew(combination)
            filtered == FilterView(indexed_development, n_years, {selected_loc},
                                   price_types)
            sorted == SortValues(filtered, "Year", FALSE)
            rounded == RoundColumns(sorted, IndexColumns, 2)
        IN  /\ page' = "Indexed developments"
            /\ warnings' = {}
            /\ charts' = NoValue
            /\ IF "København" \notin Range(PossibleEntries(indexed_development))
               THEN \* possible_entries.index(default_val) of filter_by_single_location
                    /\ sel' = [n_years |-> n_years, price_types |-> price_types]
                    /\ data_to_display' = NoValue
                    /\ error' = "ValueError"
               ELSE /\ sel' = [n_years |-> n_years, price_types |-> price_types,
                               selected_locations |-> {selected_loc}]
                    /\ data_to_display' = rounded
                    /\ error' = "none"
    /\ pc' = "rendered"
    /\ UNCHANGED <<Shared, Metrics>>

Next ==
    \/ Load
    \/ PageAvgByMncp
    \/ PageAffordByMncp
    \/ PageAffordByMncpGen
    \/ PageIndexedDev
    \/ Rerun

Spec == Init /\ [][Next]_vars

(***************************************************************************)
(* The historical-changes page: pivot by year and percent change.          *)
(*                                                                         *)
(* A cell of the pivoted table is a float: a number (in thousandths), NaN  *)
(* or an infinity.  Division and rounding are exact; the rounding of the   *)
(* binary floats themselves is not modelled.                               *)
(***************************************************************************)
Num(v) == [k |-> "num", v |-> v]
NaN == [k |-> "nan", v |-> 0]
PosInf == [k |-> "inf", v |-> 1]
NegInf == [k |-> "inf", v |-> -1]

IsNum(x) == x.k = "num"
IsNaN(x) == x.k = "nan"

\* num / den rounded to the given decimals, in thousandths (den # 0).
RoundRatio(num, den, decimals) ==
    LET n == IF den < 0 THEN 0 - num ELSE num
        d == IF den < 0 THEN 0 - den ELSE den
    IN  RoundHalfEven(n * 10 ^ decimals, d) * 10 ^ (3 - decimals)

\* The percent change with the reference value as the denominator.
PctChangeOfRef(ref, base) ==
    IF IsNaN(ref) \/ IsNaN(base) THEN NaN
    ELSE IF ref.v = 0
         THEN IF ref.v - base.v > 0 THEN PosInf
              ELSE IF ref.v - base.v < 0 THEN NegInf ELSE NaN
         ELSE Num(RoundRatio(100 * (ref.v - base.v), ref.v, 1))

\* The percent change with a division that yields 0 for a zero base.
PctChangeZeroSafe(ref, base) ==
    IF IsNaN(ref) \/ IsNaN(base) THEN NaN
    ELSE IF base.v = 0 THEN Num(0)
    ELSE Num(RoundRatio(100 * (ref.v - base.v), base.v, 1))

\* np.round(100 * ((ref - base) / base), 1) of two cells (lines 909-912):
\* float division gives an infinity for x / 0 and NaN for 0 / 0.
PctChange(ref, base) ==
    IF IsNaN(ref) \/ IsNaN(base) THEN NaN
    ELSE IF base.v = 0
         THEN IF ref.v - base.v > 0 THEN PosInf
              ELSE IF ref.v - base.v < 0 THEN NegInf ELSE NaN
         ELSE Num(RoundRatio(100 * (ref.v - base.v), base.v, 1))

\* The options of the year selectors: hist_years + future_years, sorted.
AllYears(hist_years, future) == SortAscending(hist_years \o future)

\* The caller's list, had sort() been applied to hist_years itself.
HistYearsSortedInPlace(hist_years, future) == SortAscending(hist_years)

\* The caller's list after filter_by_year_base or filter_by_year_ref has
\* returned: hist_years + future_years is a new list, and sort() sorts that
\* list, not the argument.
HistYearsAfterCall(hist_years, future) == hist_years

\* The column label of a year.
YearLabel(y) == ToString(y)

PctLabel == "% change"

\* The year columns of the pivot in the order the rows give them.
PivotYearsUnsorted(df) == UniqueSeq(Column(df, "Year"))

\* The year columns of the pivot: the years of the rows, ascending.
PivotYears(df) == SortAscending(UniqueSeq(Column(df, "Year")))

\* The index of the pivot: the municipalities of the rows, sorted.
PivotIndex(df) ==
    LET names == UniqueSeq(Column(df, "Municipality"))
    IN  Take(names, ArgSort([j \in 1..Len(names) |-> MncpRank(names[j])], Len(names)))

\* pivot raises ValueError when two rows share (Municipality, Year).
PivotDuplicates(df) ==
    \E i, j \in 1..Len(df) :
        i < j /\ df[i].Municipality = df[j].Municipality /\ df[i].Year = df[j].Year

\* df.pivot(index="Municipality", columns="Year", values=metric): a cell
\* without a row is NaN.
Pivot(df, metric) ==
    LET years == PivotYears(df)
        index == PivotIndex(df)
    IN  [index |-> index,
         columns |-> [j \in 1..Len(years) |-> YearLabel(years[j])],
         cells |-> [m \in Range(index) |->
                      [c \in {YearLabel(y) : y \in Range(years)} |->
                          LET y == CHOOSE z \in Range(years) : YearLabel(z) = c
                              rows == {r \in Range(df) :
                                          r.Municipality = m /\ r.Year = y}
                          IN  IF rows = {} THEN NaN
                              ELSE Num((CHOOSE r \in rows : TRUE)[metric])]]]

\* table[col] = values: a new column goes last, an old one keeps its place.
SetColumn(table, col, values) ==
    [index |-> table.index,
     columns |-> IF col \in Range(table.columns) THEN table.columns
                 ELSE Append(table.columns, col),
     cells |-> [m \in Range(table.index) |->
                  [c \in Range(table.columns) \cup {col} |->
                      IF c = col THEN values[m] ELSE table.cells[m][c]]]]

\* The table with its "% change" column (lines 909-912).
WithPctChange(table, base_year, ref_year) ==
    SetColumn(table, PctLabel,
              [m \in Range(table.index) |->
                  PctChange(table.cells[m][YearLabel(ref_year)],
                            table.cells[m][YearLabel(base_year)])])

\* Series.round(decimals) of a cell.
RoundCell(x, decimals) == IF IsNum(x) THEN Num(NpRound(x.v, decimals)) ELSE x

\* astype(int) raises on a column that holds NaN (or an infinity).
CastFails(table, col) == \E m \in Range(table.index) : ~IsNum(table.cells[m][col])

RoundTableColumn(table, col, decimals) ==
    SetColumn(table, col,
              [m \in Range(table.index) |-> RoundCell(table.cells[m][col], decimals)])

\* Lines 914-920: the two year columns rounded for display, base year first.
\* The result is the table and the exception that ended the loop, if any.
RoundForDisplay(table, metric_for_use, base_year, ref_year) ==
    LET b == YearLabel(base_year)
        r == YearLabel(ref_year)
    IN  IF metric_for_use = "AvgSalesPrice"
        THEN IF CastFails(table, b)
             THEN [table |-> table, error |-> "ValueError"]
             ELSE LET t1 == RoundTableColumn(table, b, 0)
                  IN  IF CastFails(t1, r)
                      THEN [table |-> t1, error |-> "ValueError"]
                      ELSE [table |-> RoundTableColumn(t1, r, 0), error |-> "none"]
        ELSE [table |-> RoundTableColumn(RoundTableColumn(table, b, 1), r, 1),
              error |-> "none"]

\* Lines 922-934.
TxtForTitle(metric_for_use) ==
    IF metric_for_use = "AvgSalesPrice" THEN "actual price"
    ELSE IF metric_for_use = "M2AffordedTotal" THEN "buyable m² with annual income"
    ELSE IF metric_for_use = "YearsoBuy50M2Total" THEN "years of income to buy 50 m²"
    ELSE "invalid selection"

\* np.select(conditions, values, default="Unknown change") of a % change.
ChangeType(x, txt_for_title) ==
    IF (IsNum(x) /\ x.v < 0) \/ x = NegInf THEN <<"Decrease in ", txt_for_title>>
    ELSE IF IsNum(x) /\ x.v = 0 THEN <<"No change in ", txt_for_title>>
    ELSE IF (IsNum(x) /\ x.v > 0) \/ x = PosInf THEN <<"Increase in ", txt_for_title>>
    ELSE <<"Unknown change">>

\* The summary with the national average counted as a municipality.
DataForChartWithNational(table, txt_for_title) ==
    LET type(m) == ChangeType(table.cells[m][PctLabel], txt_for_title)
        types == UniqueSeq([j \in 1..Len(table.index) |-> type(table.index[j])])
    IN  [j \in 1..Len(types) |->
            [ChangeType |-> types[j],
             NumberOfMunicipalities |->
                 Cardinality({m \in Range(table.index) : type(m) = types[j]})]]

\* Lines 936-959: the municipalities other than the national average counted
\* by change type, one row per change type in the order of the table.
DataForChart(table, txt_for_title) ==
    LET names == SelectSeq(table.index, LAMBDA m : m # NationalAverage)
        type(m) == ChangeType(table.cells[m][PctLabel], txt_for_title)
        types == UniqueSeq([j \in 1..Len(names) |-> type(names[j])])
    IN  [j \in 1..Len(types) |->
            [ChangeType |-> types[j],
             NumberOfMunicipalities |->
                 Cardinality({m \in Range(names) : type(m) = types[j]})]]

local_price_combinations ==
    <<"Historical data incl. estimates", "Historical data and predictions">>

\* df.sort_values(["Municipality", "Year"], ascending=False)
SortMunicipalityYearDescending(df) ==
    Take(df, ArgSort([j \in 1..Len(df) |->
                         0 - (MncpRank(df[j].Municipality) * 10000 + df[j].Year)],
                     Len(df)))

\* df[df["Year"].isin(relevant_years)]
FilterYears(df, relevant_years) == SelectSeq(df, LAMBDA r : r.Year \in relevant_years)

\* page_hist_changes: "Historical changes".
PageHistChanges ==
    /\ pc = "loaded"
    /\ \E combination \in Range(local_price_combinations),
          label \in {"Actual price", "Buyable m² with annual income",
                     "Years of income to buy 50 m²"} :
        LET price_types == FilterPriceTypeNew(combination)
            all_years == AllYears(unique_years,
                                  IF Predicted \in price_types THEN future_years ELSE <<>>)
            metric_for_use == FilterMetric(label)
        IN  \E ref_year \in Range(all_years), base_year \in Range(all_years) :
            LET filtered == SortMunicipalityYearDescending(
                                FilterPriceTypes(
                                    FilterYears(sales_data, {base_year, ref_year}),
                                    price_types))
                table == Pivot(filtered, metric_for_use)
                missing == {YearLabel(base_year), YearLabel(ref_year)}
                               \ Range(table.columns)
                changed == WithPctChange(table, base_year, ref_year)
                shown == RoundForDisplay(changed, metric_for_use, base_year, ref_year)
            IN  /\ page' = "Historical changes"
                /\ sel' = [price_types |-> price_types, base_year |-> base_year,
                           ref_year |-> ref_year, metric_for_use |-> metric_for_use]
                /\ warnings' = {}
                /\ IF PivotDuplicates(filtered)
                   THEN /\ data_to_display' = filtered
                        /\ error' = "ValueError"
                        /\ charts' = NoValue
                   ELSE IF missing # {}
                   THEN /\ data_to_display' = table
                        /\ error' = "KeyError"
                        /\ charts' = NoValue
                   ELSE /\ data_to_display' = shown.table
                        /\ error' = shown.error
                        /\ charts' =
                             IF shown.error = "none"
                             THEN [data_for_chart |->
                                      DataForChart(shown.table, TxtForTitle(metric_for_use))]
                             ELSE NoValue
    /\ pc' = "rendered"
    /\ \E future \in {future_years, <<>>} :
           unique_years' = HistYearsAfterCall(HistYearsAfterCall(unique_years, future),
                                              future)
    /\ UNCHANGED <<sales_data, indexed_development, future_years, annual_recency,
                   Metrics>>

\* Datasets of the historical-changes page: the price of every row is one
\* of two prices of its year, its price type follows from its year.
HistYears == 2022..2024
HistMncps == {"Aarhus", "Odense", NationalAverage}

HistPrices(y) ==
    IF y = 2022 THEN {0, 100 * Scale}
    ELSE IF y = 2023 THEN {100 * Scale, 150 * Scale}
    ELSE {0, 150 * Scale}

HistType(y) == IF y = 2024 THEN Predicted ELSE Actual

HistData(K, f) ==
    LET ks == KeySeq(K)
    IN  [j \in 1..Len(ks) |->
            Row(ks[j][1], ks[j][2], HistType(ks[j][1]), f[ks[j]], 100 * Scale + f[ks[j]])]

HistDatasets ==
    {d \in UNION {{HistData(K, f) : f \in {g \in [K -> {0, 100 * Scale, 150 * Scale}] :
                                                  \A k \in K : g[k] \in HistPrices(k[1])}} :
                     K \in KeySets(HistYears \X HistMncps, MaxHistRows)} :
        HasHistory(d)}

InitHist == \E d \in HistDatasets : Boot(d)

NextHist ==
    \/ Load
    \/ PageHistChanges
    \/ Rerun

SpecHist == InitHist /\ [][NextHist]_vars


(***************************************************************************)
(* The two overview pages: the top-N charts of one year.                   *)
(***************************************************************************)
\* last_historical_year of lines 46-48.
LastHistoricalYear(df) ==
    SetMax({r.Year : r \in {x \in Range(df) : x.PriceType # Predicted}})

\* Series.notna(): a missing income is held as a negative number.
NotNa(v) == v >= 0

\* possible_years: the years with a national disposable income, most recent
\* first.
PossibleYears(df) ==
    SortReverse(UniqueSeq(Column(
        SelectSeq(df, LAMBDA r : NotNa(r.NationalDisposableTotalAvg)), "Year")))

\* np.arange(1, len(list_of_municipalities) + 1).tolist()
PossibleNumbers(list_of_municipalities) ==
    [j \in 1..Len(list_of_municipalities) |-> j]

\* list.index(x) raises ValueError when x is not in the list.
HasIndex(list, x) == x \in Range(list)

\* A slice that gives rows only when there are n of them.
SliceExact(df, n) == IF n <= Len(df) THEN SubSeq(df, 1, n) ELSE <<>>

\* df[:n] after reset_index: the first n rows, all of them when there are
\* fewer.
SliceTo(df, n) == SubSeq(df, 1, IF n < Len(df) THEN n ELSE Len(df))

\* The rows of the year, the national average among them.
YearPoolWithNational(df, year_to_show) ==
    SelectSeq(df, LAMBDA r : r.Year = year_to_show)

\* The rows of the year without the national average.
YearPool(df, year_to_show) ==
    SelectSeq(SelectSeq(df, LAMBDA r : r.Year = year_to_show),
              LAMBDA r : r.Municipality # NationalAverage)

\* One top-N chart: the pool of the year sorted by rank_col (descending for
\* the largest), cut to n rows, and sorted again by chart_col the other way.
\* The chart's rows with the re-sort ascending in both directions.
TopNAscending(df, year_to_show, rank_col, largest, n, chart_col) ==
    SortValues(
        SliceTo(SortValues(YearPool(df, year_to_show), rank_col, ~largest), n),
        chart_col, TRUE)

TopN(df, year_to_show, rank_col, largest, n, chart_col) ==
    SortValues(
        SliceTo(SortValues(YearPool(df, year_to_show), rank_col, ~largest), n),
        chart_col, largest)

\* Series == scalar of a string column and an integer: no string is equal
\* to an integer.
StrEqInt(s, n) == FALSE

\* The rows kept for the map: PriceType is compared with the year.
DataSelectedYear(df, year_to_show) ==
    SelectSeq(SelectSeq(df, LAMBDA r : StrEqInt(r.PriceType, year_to_show)),
              LAMBDA r : r.Municipality # NationalAverage)

\* page_annual_price_overview: "Pricing overview".
PageAnnualPriceOverview ==
    /\ pc = "loaded"
    /\ LET possible_years == PossibleYears(sales_data)
           possible_mncp == PossibleEntries(sales_data)
           possible_numbers == PossibleNumbers(possible_mncp)
       IN  /\ page' = "Pricing overview"
           /\ warnings' = {}
           /\ IF ~HasIndex(possible_years, LastHistoricalYear(sales_data))
                 \/ ~HasIndex(possible_numbers, 10)
              THEN \* index=....index(default) of a default that is not offered
                   /\ error' = "ValueError"
                   /\ sel' = NoValue
                   /\ data_to_display' = NoValue
                   /\ charts' = NoValue
              ELSE \E year_to_show \in Range(possible_years),
                      combination \in Range(price_type_combinations),
                      label \in {"Actual price", "Price index"},
                      n_mncp_to_show \in Range(possible_numbers) :
                   LET price_types == FilterPriceTypeNew(combination)
                       metric_for_use == FilterMetric(label)
                       filtered == FilterPriceTypes(sales_data, price_types)
                       rounded == RoundColumn(filtered, metric_for_use,
                                      IF metric_for_use = "AvgSalesPrice" THEN 0 ELSE 2)
                   IN  /\ error' = "none"
                       /\ sel' = [year_to_show |-> year_to_show,
                                  price_types |-> price_types,
                                  metric_for_use |-> metric_for_use,
                                  n_mncp_to_show |-> n_mncp_to_show]
                       /\ data_to_display' = rounded
                       /\ charts' =
                            [data_selected_year |-> DataSelectedYear(rounded, year_to_show),
                             national |->
                                 SelectSeq(rounded, LAMBDA r : r.Municipality = NationalAverage),
                             most_expensive |->
                                 TopN(rounded, year_to_show, "AvgSalesPrice", TRUE,
                                      n_mncp_to_show, metric_for_use),
                             cheapest |->
                                 TopN(rounded, year_to_show, "AvgSalesPrice", FALSE,
                                      n_mncp_to_show, metric_for_use),
                             highest_rise |->
                                 TopN(rounded, year_to_show, "AvgSalesPriceChange", TRUE,
                                      n_mncp_to_show, "AvgSalesPriceChange"),
                             lowest_rise |->
                                 TopN(rounded, year_to_show, "AvgSalesPriceChange", FALSE,
                                      n_mncp_to_show, "AvgSalesPriceChange")]
    /\ pc' = "rendered"
    /\ UNCHANGED <<Shared, Metrics>>

\* page_annual_afford_overview: "Affordability overview".
PageAnnualAffordOverview ==
    /\ pc = "loaded"
    /\ LET possible_years == PossibleYears(sales_data)
           possible_mncp == PossibleEntries(sales_data)
           possible_numbers == PossibleNumbers(possible_mncp)
       IN  /\ page' = "Affordability overview"
           /\ warnings' = {}
           /\ IF ~HasIndex(possible_years, LastHistoricalYear(sales_data))
                 \/ ~HasIndex(possible_numbers, 10)
              THEN \* index=....index(default) of a default that is not offered
                   /\ error' = "ValueError"
                   /\ sel' = NoValue
                   /\ data_to_display' = NoValue
                   /\ charts' = NoValue
              ELSE \E year_to_show \in Range(possible_years),
                      combination \in Range(price_type_combinations),
                      n_mncp_to_show \in Range(possible_numbers) :
                   LET price_types == FilterPriceTypeNew(combination)
                       filtered == FilterPriceTypes(sales_data, price_types)
                       rounded == RoundColumn(filtered, "M2AffordedTotal", 0)
                   IN  /\ error' = "none"
                       /\ sel' = [year_to_show |-> year_to_show,
                                  price_types |-> price_types,
                                  n_mncp_to_show |-> n_mncp_to_show]
                       /\ data_to_display' = rounded
                       /\ charts' =
                            [most_affordable |->
                                 TopN(rounded, year_to_show, "M2AffordedTotal", TRUE,
                                      n_mncp_to_show, "M2AffordedTotal"),
                             least_affordable |->
                                 TopN(rounded, year_to_show, "M2AffordedTotal", FALSE,
                                      n_mncp_to_show, "M2AffordedTotal"),
                             best_development |->
                                 TopN(rounded, year_to_show, "AvgM2AffordedTotalChange", TRUE,
                                      n_mncp_to_show, "AvgM2AffordedTotalChange"),
                             worst_development |->
                                 TopN(rounded, year_to_show, "AvgM2AffordedTotalChange", FALSE,
                                      n_mncp_to_show, "AvgM2AffordedTotalChange")]
    /\ pc' = "rendered"
    /\ UNCHANGED <<Shared, Metrics>>

\* Datasets of the overview page: the rows of 2023 are a pool of rows of
\* distinct municipalities in any order, each of one of two kinds (price
\* type, price, price index); the rows of 2022 are either all there, one
\* per municipality, or all missing.
PoolMncps == {"Aarhus", "Odense", "Roskilde", NationalAverage}

PoolKinds ==
    {<<Actual, 100 * Scale + 400, 110 * Scale + 4>>,
     <<Estimated, 200 * Scale, 90 * Scale>>}

PoolOrders ==
    {s \in UNION {[1..k -> PoolMncps] : k \in 0..MaxPool} :
        \A i, j \in DOMAIN s : i # j => s[i] # s[j]}

PadRows ==
    [j \in 1..Len(MncpOrder) |->
        Row(2022, MncpOrder[j], Actual, (100 + j) * Scale, 100 * Scale + j * 10)]

PoolRows(s, f) ==
    [j \in 1..Len(s) |-> Row(2023, s[j], f[j][1], f[j][2], f[j][3])]

TopNDatasets ==
    {d \in UNION {UNION {{pad \o PoolRows(s, f) : f \in [DOMAIN s -> PoolKinds]} :
                            s \in PoolOrders} :
                     pad \in {PadRows, <<>>}} :
        HasHistory(d)}

InitTopN == \E d \in TopNDatasets : Boot(d)

NextTopN ==
    \/ Load
    \/ PageAnnualPriceOverview
    \/ PageAnnualAffordOverview
    \/ Rerun

SpecTopN == InitTopN /\ [][NextTopN]_vars

(***************************************************************************)
(* The two resolvers called on their own: filter_price_type_new and        *)
(* filter_metric with any list of options, the user choosing one of them.  *)
(***************************************************************************)
\* Python's None.
None == "None"

\* The selection of a selectbox: one of its options, None when it has none.
SelectboxChoices(options) == IF options = <<>> THEN {None} ELSE Range(options)

\* filter_price_type_new with an else branch that allows every price type.
FilterPriceTypeNewLenient(possible_entries, default_val, selected_combination) ==
    IF ~HasIndex(possible_entries, default_val)
    THEN [error |-> "ValueError", value |-> NoValue]
    ELSE [error |-> "none", value |-> FilterPriceTypeNew(selected_combination)]

\* filter_price_type_new: the call and its outcome.  A selection that binds
\* no allowed_types fails at "return allowed_types".
FilterPriceTypeNewCall(possible_entries, default_val, selected_combination) ==
    IF ~HasIndex(possible_entries, default_val)
    THEN [error |-> "ValueError", value |-> NoValue]
    ELSE IF ~PriceTypeBound(selected_combination)
    THEN [error |-> "UnboundLocalError", value |-> NoValue]
    ELSE [error |-> "none", value |-> FilterPriceTypeNew(selected_combination)]

\* filter_metric: the call and its outcome.
FilterMetricCall(selected_metric) ==
    [error |-> "none", value |-> FilterMetric(selected_metric)]

\* The names a caller may put in a list of options.
CombinationNames ==
    Range(price_type_combinations) \cup {"Predictions only", "All data"}

MetricLabels ==
    {"Actual price", "Price index", "Buyable m² with annual income",
     "Years of income to buy 50 m²", "Price per room"}

\* The lists of at most n options.
OptionLists(names, n) == UNION {[1..k -> names] : k \in 0..n}

InitWidgets ==
    /\ sales_data = <<>>
    /\ files = SampleFiles
    /\ income_fit_metrics = files.IncomeModelFitMetrics
    /\ price_fit_metrics = files.SalesModelFitMetrics
    /\ price_imp_metrics = files.SalesPriceImputationFitMetrics
    /\ indexed_development = <<>>
    /\ unique_years = NoValue
    /\ future_years = NoValue
    /\ annual_recency = NoValue
    /\ pc = "call"
    /\ page = "none"
    /\ data_to_display = NoValue
    /\ charts = NoValue
    /\ error = "none"
    /\ warnings = {}
    /\ \/ \E possible_entries \in OptionLists(CombinationNames, MaxEntries),
             default_val \in CombinationNames :
              sel = [widget |-> "filter_price_type_new",
                     possible_entries |-> possible_entries,
                     default_val |-> default_val]
       \/ \E list_of_metrics \in OptionLists(MetricLabels, MaxEntries) :
              sel = [widget |-> "filter_metric", list_of_metrics |-> list_of_metrics]

\* The user selects an option and filter_price_type_new returns or raises.
CallFilterPriceTypeNew ==
    /\ pc = "call"
    /\ sel.widget = "filter_price_type_new"
    /\ \E selected_combination \in SelectboxChoices(sel.possible_entries) :
        LET call == FilterPriceTypeNewCall(sel.possible_entries, sel.default_val,
                                           selected_combination)
        IN  /\ sel' = [widget |-> sel.widget,
                       possible_entries |-> sel.possible_entries,
                       default_val |-> sel.default_val,
                       selected |-> selected_combination]
            /\ data_to_display' = call.value
            /\ error' = call.error
    /\ pc' = "returned"
    /\ UNCHANGED <<Shared, Metrics, page, charts, warnings>>

\* The user selects an option and filter_metric returns.
CallFilterMetric ==
    /\ pc = "call"
    /\ sel.widget = "filter_metric"
    /\ \E selected_metric \in SelectboxChoices(sel.list_of_metrics) :
        LET call == FilterMetricCall(selected_metric)
        IN  /\ sel' = [widget |-> sel.widget,
                       list_of_metrics |-> sel.list_of_metrics,
                       selected |-> selected_metric]
            /\ data_to_display' = call.value
            /\ error' = call.error
    /\ pc' = "returned"
    /\ UNCHANGED <<Shared, Metrics, page, charts, warnings>>

NextWidgets ==
    \/ CallFilterPriceTypeNew
    \/ CallFilterMetric

SpecWidgets == InitWidgets /\ [][NextWidgets]_vars

(***************************************************************************)
(* The model-accuracy page.                                                *)
(***************************************************************************)
FitMetricsEntries == <<"Accuracy (%) only", "R² only", "MAPE/RMSE only", "All">>

\* The words of the page's column tests ('"Accuracy" in col') that a column
\* name contains.
WordsIn(col) ==
    CASE col \in {"Total income, R² (%)", "Sales price, R² (%)"} -> {"R²"}
      [] col \in {"Total income, MAPE (%)", "Sales price, MAPE (%)"} -> {"MAPE"}
      [] col \in {"Total income, Accuracy (%)", "Sales price, Accuracy (%)",
                  "Accuracy (%)"} -> {"Accuracy"}
      [] col \in {"RMSE", "Normalized RMSE (%)"} -> {"RMSE"}
      [] OTHER -> {}

ColsToKeep(t, words) ==
    <<"Municipality">> \o SelectSeq(t.columns, LAMBDA col : WordsIn(col) \cap words # {})

\* The table of a fit-metrics section.
FitSection(t, selected_metrics) ==
    IF selected_metrics = "Accuracy (%) only"
    THEN SelectColumns(t, ColsToKeep(t, {"Accuracy"}))
    ELSE IF selected_metrics = "R² only"
    THEN SelectColumns(t, ColsToKeep(t, {"R²"}))
    ELSE IF selected_metrics = "MAPE/RMSE only"
    THEN SelectColumns(t, ColsToKeep(t, {"MAPE", "RMSE"}))
    ELSE t

\* The table of the imputation section: the "R² only" branch warns and
\* assigns nothing, so data_to_display is what the section before left.
ImputationSection(previous, t, selected_metrics) ==
    IF selected_metrics = "Accuracy (%) only"
    THEN IndexIsin(t, {"Accuracy (%)"})
    ELSE IF selected_metrics = "R² only"
    THEN previous
    ELSE IF selected_metrics = "MAPE/RMSE only"
    THEN IndexIsin(t, {"Normalized RMSE (%)"})
    ELSE t

PageNotesAccuracy ==
    /\ pc = "loaded"
    /\ \E selected_metrics \in Range(FitMetricsEntries) :
        LET income == FitSection(income_fit_metrics, selected_metrics)
            price == FitSection(price_fit_metrics, selected_metrics)
            imputation == ImputationSection(price, price_imp_metrics, selected_metrics)
        IN  /\ page' = "Info on modelling"
            /\ sel' = [selected_metrics |-> selected_metrics]
            /\ charts' = [income |-> income, price |-> price, imputation |-> imputation]
            /\ data_to_display' = imputation
            /\ warnings' = IF selected_metrics = "R² only"
                           THEN {"R² is not available for this model"}
                           ELSE {}
            /\ error' = "none"
    /\ pc' = "rendered"
    /\ UNCHANGED <<Shared, Metrics>>

InitAccuracy ==
    \E f \in MetricFiles :
        BootFiles(<<Row(2022, NationalAverage, Actual, 100 * Scale, 100 * Scale)>>, f)

NextAccuracy ==
    \/ Load
    \/ PageNotesAccuracy
    \/ Rerun

SpecAccuracy == InitAccuracy /\ [][NextAccuracy]_vars

(***************************************************************************)
(* Every page of the dispatch that computes something, over the datasets   *)
(* of the by-municipality pages and datasets with enough municipalities    *)
(* for the overview pages.                                                 *)
(***************************************************************************)
PagesDatasets ==
    ViewDatasets \cup {PadRows \o PoolRows(<<"Aarhus">>, f) : f \in [1..1 -> PoolKinds]}

InitPages == \E d \in PagesDatasets : Boot(d)

NextPages ==
    \/ Load
    \/ PageAnnualPriceOverview
    \/ PageAnnualAffordOverview
    \/ PageAvgByMncp
    \/ PageAffordByMncp
    \/ PageAffordByMncpGen
    \/ PageIndexedDev
    \/ PageHistChanges
    \/ PageNotesAccuracy
    \/ Rerun

SpecPages == InitPages /\ [][NextPages]_vars

(***************************************************************************)
(* Properties of the recency map and of the by-municipality views.         *)
(***************************************************************************)
Loaded == pc \in {"loaded", "rendered"}

\* The years of the dataset that have a row that is not predicted.
HistoricalYears == {r.Year : r \in {x \in Range(sales_data) : x.PriceType # Predicted}}

\* The k most recent of the years H.
MostRecent(H, k) == {y \in H : Cardinality({z \in H : z > y}) < k}

RowKey(r) == <<r.Year, r.Municipality>>

ByMncpPages == {"Pricing by municipality", "Affordability by municipality"}

ViewPages == ByMncpPages \cup {"Affordability by gender"}

\* The page built its view: its filters ran on the selections in sel.
ViewBuilt == page \in ViewPages /\ "selected_locations" \in DOMAIN sel

\* C1: in the recency map built at load time, an older historical year has a
\* greater rank than a more recent one, and the most recent historical year
\* has rank 1.
C1_RecencyMonotone ==
    Loaded =>
        /\ HistoricalYears \subseteq DOMAIN annual_recency
        /\ \A y1, y2 \in HistoricalYears :
               y1 < y2 => annual_recency[y1] > annual_recency[y2]
        /\ annual_recency[SetMax(HistoricalYears)] = 1

C1_Witness ==
    /\ pc = "loaded"
    /\ \E y1, y2 \in HistoricalYears : y2 > y1 + 1
    /\ Column(sales_data, "Year") # SortReverse(Column(sales_data, "Year"))

\* C2: with max_recency k (1 <= k <= n, n the number of historical years),
\* the rows of historical years in the view of a by-municipality page are
\* exactly the rows of the k most recent historical years that pass the
\* price-type and location filters, each once; the rows of every other
\* historical year are left out.
C2_ViewFilterComposition ==
    (page \in ByMncpPages) =>
        LET H == HistoricalYears
            recent == MostRecent(H, sel.n_years)
            shown == SelectSeq(data_to_display, LAMBDA r : r.Year \in H)
            expected == {r \in Range(sales_data) :
                            /\ r.Year \in recent
                            /\ r.PriceType \in sel.price_types
                            /\ r.Municipality \in sel.selected_locations}
        IN  /\ sel.n_years \in 1..Cardinality(H)
            /\ {RowKey(r) : r \in Range(shown)} = {RowKey(r) : r \in expected}
            /\ Len(shown) = Cardinality(expected)

C2_Witness ==
    /\ page \in ByMncpPages
    /\ sel.n_years = 2
    /\ Cardinality(HistoricalYears) = 3
    /\ Len(data_to_display) = 2
    /\ \E r \in Range(sales_data) :
           /\ r.Year = SetMin(HistoricalYears)
           /\ r.PriceType \in sel.price_types
           /\ r.Municipality \in sel.selected_locations

\* C3: a row whose year has rank 0 is in the view of a by-municipality page
\* exactly when its price type is allowed and its municipality is selected,
\* whatever max_recency is.
C3_FutureRowsBypassRecency ==
    (page \in ByMncpPages) =>
        \A r \in Range(sales_data) :
            r.Recency = 0 =>
                ((\E v \in Range(data_to_display) : RowKey(v) = RowKey(r))
                 <=> (/\ r.PriceType \in sel.price_types
                      /\ r.Municipality \in sel.selected_locations))

C3_Witness ==
    /\ page \in ByMncpPages
    /\ sel.n_years = 1
    /\ Cardinality(HistoricalYears) = 2
    /\ \E r \in Range(sales_data) :
           /\ r.Recency = 0
           /\ \E v \in Range(data_to_display) : RowKey(v) = RowKey(r)
    /\ \E r \in Range(sales_data) :
           /\ r.Recency = 2
           /\ r.PriceType \in sel.price_types
           /\ r.Municipality \in sel.selected_locations

\* C9: when the recency, location and price-type filters leave no row, the
\* page ends without an exception and signals NoDataAvailable.
C9_EmptyViewGuarantee ==
    (/\ ViewBuilt
     /\ FilterView(sales_data, sel.n_years, sel.selected_locations,
                   sel.price_types) = <<>>)
        => (error = "none" /\ "NoDataAvailable" \in warnings)

(***************************************************************************)
(* Properties of the historical-changes page.                              *)
(***************************************************************************)
HistPage == page = "Historical changes"

\* The rows of the dataset the page pivots for municipality m and year y.
SourceRows(m, y) ==
    {r \in Range(sales_data) :
        r.Municipality = m /\ r.Year = y /\ r.PriceType \in sel.price_types}

HasRow(m, y) == SourceRows(m, y) # {}

\* The value of the selected metric in the dataset, as loaded.
ValueOf(m, y) == (CHOOSE r \in SourceRows(m, y) : TRUE)[sel.metric_for_use]

\* The municipalities with a row for one of the two selected years.
ComparedMncps ==
    {m \in Range(PossibleEntries(sales_data)) :
        HasRow(m, sel.base_year) \/ HasRow(m, sel.ref_year)}

Abs(x) == IF x < 0 THEN 0 - x ELSE x

PctOf(m) == data_to_display.cells[m][PctLabel]

\* C4: for a municipality of the table with a present, non-zero base value b
\* and reference value r, both as loaded (not as rounded for display),
\* "% change" is (r - b) / b * 100 rounded to one decimal (the nearest
\* tenth, a tie to the even one); base 100 and reference 150 give 50.0.
C4_PercentChangeFormula ==
    HistPage =>
        \A m \in Range(data_to_display.index) :
            (HasRow(m, sel.base_year) /\ ValueOf(m, sel.base_year) # 0) =>
                IF HasRow(m, sel.ref_year)
                THEN LET b == ValueOf(m, sel.base_year)
                         r == ValueOf(m, sel.ref_year)
                         tenths == PctOf(m).v \div 100
                         off == Abs(tenths * b - 1000 * (r - b))
                     IN  /\ IsNum(PctOf(m))
                         /\ PctOf(m).v = 100 * tenths
                         /\ 2 * off <= Abs(b)
                         /\ (2 * off = Abs(b)) => (tenths % 2 = 0)
                         /\ (b = 100 * Scale /\ r = 150 * Scale)
                                => PctOf(m).v = 50 * Scale
                ELSE IsNaN(PctOf(m))

C4_Witness ==
    /\ HistPage
    /\ error = "none"
    /\ \E m \in Range(data_to_display.index) :
           /\ HasRow(m, sel.base_year)
           /\ HasRow(m, sel.ref_year)
           /\ ValueOf(m, sel.base_year) % 100 # 0
           /\ ValueOf(m, sel.ref_year) % 100 # 0
           /\ (1000 * (ValueOf(m, sel.ref_year) - ValueOf(m, sel.base_year)))
                  % ValueOf(m, sel.base_year) # 0
           /\ data_to_display.cells[m][YearLabel(sel.base_year)]
                  # Num(ValueOf(m, sel.base_year))

\* C5: for a municipality whose base value is 0 and whose reference value
\* is not, "% change" is an infinity, the sentinel of an undefined change,
\* and not a number (so not 0.0); every municipality of the table has its
\* "% change", and the zero base raises nothing: the page ends without an
\* exception unless a year cell of the table is missing.
C5_ZeroBaseSentinel ==
    HistPage =>
        \A m \in Range(data_to_display.index) :
            (/\ HasRow(m, sel.base_year) /\ ValueOf(m, sel.base_year) = 0
             /\ HasRow(m, sel.ref_year) /\ ValueOf(m, sel.ref_year) # 0) =>
                /\ PctOf(m) \in {PosInf, NegInf}
                /\ ~IsNum(PctOf(m))
                /\ Range(data_to_display.index) = ComparedMncps
                /\ \A o \in ComparedMncps : PctLabel \in DOMAIN data_to_display.cells[o]
                /\ (\A o \in ComparedMncps :
                        HasRow(o, sel.base_year) /\ HasRow(o, sel.ref_year))
                       => error = "none"

C5_Witness ==
    /\ HistPage
    /\ error = "none"
    /\ \E m, o \in Range(data_to_display.index) :
           /\ HasRow(m, sel.base_year) /\ ValueOf(m, sel.base_year) = 0
           /\ HasRow(m, sel.ref_year) /\ ValueOf(m, sel.ref_year) # 0
           /\ PctOf(m) = PosInf
           /\ o # m
           /\ IsNum(PctOf(o))

\* C6: a municipality without a row for the base year or for the reference
\* year is left out of the pivoted table, and the page does not fail.
C6_PivotCompleteness ==
    HistPage =>
        \A m \in ComparedMncps :
            (~HasRow(m, sel.base_year) \/ ~HasRow(m, sel.ref_year)) =>
                (m \notin Range(data_to_display.index) /\ error = "none")

\* C7: with the base year equal to the reference year the computation fails
\* with InvalidRange.
C7_InvalidRange ==
    (HistPage /\ sel.base_year = sel.ref_year) => error = "InvalidRange"

\* C8, as claimed: for base_year # ref_year the columns are the base year,
\* the reference year, then "% change".
C8_ColumnOrderBaseFirst ==
    (HistPage /\ sel.base_year # sel.ref_year) =>
        data_to_display.columns
            = <<YearLabel(sel.base_year), YearLabel(sel.ref_year), PctLabel>>

\* C8, amended: for base_year # ref_year the table has exactly three value
\* columns: the earlier of the two years, the later of the two, then
\* "% change".
C8_ColumnOrderByYear ==
    (HistPage /\ sel.base_year # sel.ref_year) =>
        data_to_display.columns
            = <<YearLabel(SetMin({sel.base_year, sel.ref_year})),
                YearLabel(SetMax({sel.base_year, sel.ref_year})), PctLabel>>

C8_Witness ==
    /\ HistPage
    /\ error = "none"
    /\ sel.base_year > sel.ref_year
    /\ Len(data_to_display.index) > 1

(***************************************************************************)
(* Properties of the overview of housing prices.                           *)
(***************************************************************************)
OverviewPage == page = "Pricing overview"

\* The selector returned a number of municipalities.
NumberOffered == OverviewPage /\ "n_mncp_to_show" \in DOMAIN sel

\* The number of rows of the selected year and price types that are not the
\* national average.
PoolSize ==
    Cardinality({j \in 1..Len(sales_data) :
                    /\ sales_data[j].Year = sel.year_to_show
                    /\ sales_data[j].PriceType \in sel.price_types
                    /\ sales_data[j].Municipality # NationalAverage})

TopNCharts == {"most_expensive", "cheapest", "highest_rise", "lowest_rise"}

\* C10: for every pool and every number n the selector offers, the page
\* renders without an exception and each of its top-N charts has exactly
\* min(n, len(pool)) rows.
C10_TopNBoundary ==
    NumberOffered =>
        /\ error = "none"
        /\ \A c \in TopNCharts :
               Len(charts[c]) = IF sel.n_mncp_to_show < PoolSize
                                THEN sel.n_mncp_to_show ELSE PoolSize

\* Top-5 of a pool of three rows: three rows in every chart.
C10_Witness ==
    /\ NumberOffered
    /\ error = "none"
    /\ sel.n_mncp_to_show = 5
    /\ PoolSize = 3
    /\ \A c \in TopNCharts : Len(charts[c]) = 3

AffordPage == page = "Affordability overview"

\* One of the two overview pages, rendered with its top-N charts.
TopNPage == (OverviewPage \/ AffordPage) /\ "n_mncp_to_show" \in DOMAIN sel

AffordCharts ==
    {"most_affordable", "least_affordable", "best_development", "worst_development"}

PageCharts == IF OverviewPage THEN TopNCharts ELSE AffordCharts

\* The column a chart's rows are ranked by before the cut.
RankCol(c) ==
    IF c \in {"most_expensive", "cheapest"} THEN "AvgSalesPrice"
    ELSE IF c \in {"highest_rise", "lowest_rise"} THEN "AvgSalesPriceChange"
    ELSE IF c \in {"most_affordable", "least_affordable"} THEN "M2AffordedTotal"
    ELSE "AvgM2AffordedTotalChange"

\* The rows of the page's data for the selected year.
YearRows == {r \in Range(data_to_display) : r.Year = sel.year_to_show}

\* The rows a ranking may choose from.
RankingPool == {r \in YearRows : r.Municipality # NationalAverage}

\* C11: in every top-N chart two municipalities with the same value of the
\* ranking column appear in alphabetical order of their names, and of two
\* tied municipalities at the cut-off the alphabetically first is the one
\* kept, whatever the order of the rows in the file.
C11_TieBreakAlphabetical ==
    TopNPage =>
        \A c \in PageCharts :
            /\ \A i, j \in 1..Len(charts[c]) :
                   (i < j /\ charts[c][i][RankCol(c)] = charts[c][j][RankCol(c)]) =>
                       MncpRank(charts[c][i].Municipality)
                           < MncpRank(charts[c][j].Municipality)
            /\ \A r \in Range(charts[c]), o \in RankingPool :
                   (o \notin Range(charts[c]) /\ o[RankCol(c)] = r[RankCol(c)]) =>
                       MncpRank(r.Municipality) < MncpRank(o.Municipality)

\* C12: on the pricing overview the rows of the 'most expensive' chart are
\* rows of the selected year with the highest values of the selected metric
\* (no row left out has a higher value), and the rows of the 'cheapest'
\* chart are rows with the lowest values of it.
C12_TopNBySelectedMetric ==
    NumberOffered =>
        /\ Range(charts.most_expensive) \subseteq RankingPool
        /\ Range(charts.cheapest) \subseteq RankingPool
        /\ \A r \in Range(charts.most_expensive), o \in RankingPool :
               o \notin Range(charts.most_expensive) =>
                   o[sel.metric_for_use] <= r[sel.metric_for_use]
        /\ \A r \in Range(charts.cheapest), o \in RankingPool :
               o \notin Range(charts.cheapest) =>
                   r[sel.metric_for_use] <= o[sel.metric_for_use]

\* The size of a cut of n rows of a pool.
CutSize(n, pool) == IF n < Cardinality(pool) THEN n ELSE Cardinality(pool)

\* C13: on both overview pages no top-N chart has a row of the national
\* average, and the national average takes none of the n places: each chart
\* has min(n, number of the year's other rows) rows, all of them rows of
\* the year's municipalities.
C13_NationalAverageExcluded ==
    TopNPage =>
        \A c \in PageCharts :
            /\ \A i \in 1..Len(charts[c]) : charts[c][i].Municipality # NationalAverage
            /\ Range(charts[c]) \subseteq RankingPool
            /\ Len(charts[c]) = CutSize(sel.n_mncp_to_show, RankingPool)

\* The year has a row of the national average that ranks above every
\* municipality, and more municipalities than places.
C13_Witness ==
    /\ TopNPage
    /\ AffordPage
    /\ \E a \in YearRows :
           /\ a.Municipality = NationalAverage
           /\ \A r \in RankingPool : r.M2AffordedTotal < a.M2AffordedTotal
    /\ sel.n_mncp_to_show < Cardinality(RankingPool)
    /\ Len(charts.most_affordable) = sel.n_mncp_to_show

(***************************************************************************)
(* Properties of the resolvers.                                            *)
(***************************************************************************)
\* filter_price_type_new was called with a default it could show, and ended.
PriceTypeReturned ==
    /\ pc = "returned"
    /\ sel.widget = "filter_price_type_new"
    /\ HasIndex(sel.possible_entries, sel.default_val)

MetricReturned == pc = "returned" /\ sel.widget = "filter_metric"

ExclEstimates == "Historical data excl. estimates"
InclEstimates == "Historical data incl. estimates"
InclPredictions == "Historical data and predictions"

\* A is a proper subset of B.
StrictSubset(A, B) == A \subseteq B /\ A # B

\* C14: each of the three named combinations resolves, without an error, to
\* a non-empty set of price types: {Actual} without estimates, {Actual,
\* Estimated} with them, all three with predictions; the three sets are
\* distinct and form a strict chain.
C14_PriceTypeExpansion ==
    /\ (PriceTypeReturned /\ sel.selected \in Range(price_type_combinations)) =>
           /\ error = "none"
           /\ data_to_display # {}
           /\ data_to_display \subseteq PriceTypes
           /\ sel.selected = ExclEstimates => data_to_display = {Actual}
           /\ sel.selected = InclEstimates => data_to_display = {Actual, Estimated}
           /\ sel.selected = InclPredictions
                  => data_to_display = {Actual, Estimated, Predicted}
    /\ Range(price_type_combinations) = {ExclEstimates, InclEstimates, InclPredictions}
    /\ StrictSubset(FilterPriceTypeNew(ExclEstimates), FilterPriceTypeNew(InclEstimates))
    /\ StrictSubset(FilterPriceTypeNew(InclEstimates), FilterPriceTypeNew(InclPredictions))

C14_Witness ==
    /\ PriceTypeReturned
    /\ sel.selected = InclPredictions
    /\ error = "none"
    /\ data_to_display = PriceTypes

\* C15: a selected combination other than the three named ones makes
\* filter_price_type_new fail: the call ends with an exception and returns
\* no set of price types.
C15_UnknownCombinationRejected ==
    (PriceTypeReturned /\ sel.selected \notin Range(price_type_combinations)) =>
        /\ error # "none"
        /\ data_to_display = NoValue

C15_Witness ==
    /\ PriceTypeReturned
    /\ sel.selected = "All data"
    /\ error = "UnboundLocalError"

\* C16: a selected metric label outside the four known labels makes
\* filter_metric fail, so that it returns no value to use as a column name.
C16_UnknownMetricRejected ==
    (MetricReturned
        /\ sel.selected # None
        /\ sel.selected \notin {"Actual price", "Price index",
                                "Buyable m² with annual income",
                                "Years of income to buy 50 m²"}) =>
        error # "none"

(***************************************************************************)
(* More properties of the recency map and of the by-municipality views.    *)
(***************************************************************************)
\* C17: the recency map gives each of the n historical years of the dataset
\* a rank, no two the same, and the ranks are exactly 1..n; a dataset with
\* one historical year gives it rank 1.
C17_RecencyBijection ==
    Loaded =>
        /\ DOMAIN annual_recency = HistoricalYears
        /\ \A y1, y2 \in HistoricalYears :
               annual_recency[y1] = annual_recency[y2] => y1 = y2
        /\ {annual_recency[y] : y \in HistoricalYears} = 1..Cardinality(HistoricalYears)
        /\ \A y \in HistoricalYears :
               HistoricalYears = {y} => annual_recency[y] = 1

\* Three rows, two of them of the same historical year.
C17_Witness ==
    /\ pc = "loaded"
    /\ Cardinality(HistoricalYears) = 2
    /\ \E i, j \in 1..Len(sales_data) :
           /\ i # j
           /\ sales_data[i].Year = sales_data[j].Year
           /\ sales_data[i].PriceType # Predicted
           /\ sales_data[j].PriceType # Predicted

\* C18, as claimed: rank(y) = most recent historical year - y + 1.
C18_RankIsCalendarDistance ==
    Loaded =>
        \A y \in HistoricalYears :
            annual_recency[y] = SetMax(HistoricalYears) - y + 1

\* C18, amended: rank(y) is 1 + the number of historical years of the
\* dataset after y, which is the calendar distance + 1 exactly when every
\* year between y and the most recent one is a historical year of the
\* dataset.
C18_RankIsPosition ==
    Loaded =>
        \A y \in HistoricalYears :
            /\ annual_recency[y] = 1 + Cardinality({z \in HistoricalYears : z > y})
            /\ (annual_recency[y] = SetMax(HistoricalYears) - y + 1)
                   <=> (y..SetMax(HistoricalYears)) \subseteq HistoricalYears

\* The historical years have a gap.
C18_Witness ==
    /\ pc = "loaded"
    /\ \E y \in HistoricalYears :
           /\ y + 1 \notin HistoricalYears
           /\ y + 2 \in HistoricalYears
           /\ annual_recency[y] = 2

\* C19: a year with no row other than predicted ones is not in the recency
\* map, and every row of such a year has Recency 0, in the sales panel and
\* in the indexed-development dataset.
C19_RankZeroForFutureYears ==
    Loaded =>
        \A df \in {sales_data, indexed_development} :
            \A j \in 1..Len(df) :
                df[j].Year \notin HistoricalYears =>
                    (df[j].Recency = 0 /\ df[j].Year \notin DOMAIN annual_recency)

\* A predicted row of a year of its own next to a predicted row of a
\* historical year.
C19_Witness ==
    /\ pc = "loaded"
    /\ \E i, j \in 1..Len(sales_data) :
           /\ sales_data[i].PriceType = Predicted
           /\ sales_data[i].Year \notin HistoricalYears
           /\ sales_data[i].Recency = 0
           /\ indexed_development[i].Recency = 0
           /\ sales_data[j].PriceType = Predicted
           /\ sales_data[j].Recency > 0

\* The keys of the rows of the dataset that pass the recency and price-type
\* filters of the page.
PassingKeys ==
    {RowKey(r) : r \in {x \in Range(sales_data) :
                           x.Recency <= sel.n_years /\ x.PriceType \in sel.price_types}}

NoLocationSelected == page \in ByMncpPages /\ sel.picked = {}

DecimalsOf(metric) == IF metric = "AvgSalesPrice" THEN 0 ELSE 2

\* C22: the year columns of the historical-changes table hold the values of
\* the selected metric rounded by the type of the metric: the price to 0
\* decimals, an affordability ratio to 2 decimals, as on the other pages.
C22_RoundingByMetricType ==
    (HistPage /\ error = "none") =>
        \A m \in Range(data_to_display.index) :
            \A y \in {sel.base_year, sel.ref_year} :
                HasRow(m, y) =>
                    data_to_display.cells[m][YearLabel(y)]
                        = Num(NpRound(ValueOf(m, y), DecimalsOf(sel.metric_for_use)))

SortedViewPages == ViewPages \cup {"Indexed developments"}

\* C24: the view of a by-municipality, by-gender or indexed-development page
\* is ordered by Year descending: no row is followed by a row of a later
\* year.
C24_ViewYearDescending ==
    (page \in SortedViewPages) =>
        \A i \in 1..(Len(data_to_display) - 1) :
            data_to_display[i].Year >= data_to_display[i + 1].Year

\* A view of the indexed-development page with rows of two years, which the
\* file has in ascending order.
C24_Witness ==
    /\ page = "Indexed developments"
    /\ error = "none"
    /\ Len(data_to_display) >= 2
    /\ data_to_display[1].Year > data_to_display[2].Year
    /\ \E i, j \in 1..Len(indexed_development) :
           /\ i < j
           /\ indexed_development[i].Year = data_to_display[2].Year
           /\ indexed_development[j].Year = data_to_display[1].Year
           /\ indexed_development[i].Municipality = data_to_display[1].Municipality
           /\ indexed_development[j].Municipality = data_to_display[1].Municipality

(***************************************************************************)
(* Properties of the model-accuracy page.                                  *)
(***************************************************************************)
AccuracyPage == page = "Info on modelling"

\* C30: the table of the imputation section is taken from the imputation
\* metrics for every choice of the selector: it has the column of
\* price_imp_metrics, and each of its rows is a row of price_imp_metrics.
C30_ImputationSectionFromImputationMetrics ==
    AccuracyPage =>
        /\ charts.imputation.columns = price_imp_metrics.columns
        /\ Range(charts.imputation.index) \subseteq Range(price_imp_metrics.index)
        /\ \A i \in Range(charts.imputation.index) :
               charts.imputation.cells[i] = price_imp_metrics.cells[i]

(***************************************************************************)
(* Properties of the shared data.                                          *)
(***************************************************************************)
\* C23: once the recency map and the Recency columns are built, the step of
\* any page, with any filter values and also when it ends in an error,
\* leaves the panel dataset, the indexed-development dataset, the historical
\* years, the future years and the recency map as they were.
C23_SharedReadOnly == [][pc = "loaded" => UNCHANGED Shared]_vars

\* The historical-changes page has ended in an error, on data whose
\* historical years are not in ascending order, and the shared data is
\* still what the load built.
C23_Witness ==
    /\ HistPage
    /\ error # "none"
    /\ Len(unique_years) >= 2
    /\ unique_years[1] > unique_years[2]
    /\ future_years # <<>>
    /\ unique_years = UniqueYears(AsRead(sales_data))
    /\ annual_recency = AnnualRecency(unique_years)
    /\ sales_data = MapRecency(AsRead(sales_data), annual_recency)

(***************************************************************************)
(* Properties of the order of the top-N charts.                            *)
(***************************************************************************)
\* The column a chart's rows are re-sorted by after the cut.
ChartCol(c) ==
    IF c \in {"most_expensive", "cheapest"} THEN sel.metric_for_use ELSE RankCol(c)

\* The charts of the n largest values.
LargestCharts == {"most_expensive", "highest_rise", "most_affordable", "best_development"}

Ascending(rows, col) == \A i \in 1..(Len(rows) - 1) : rows[i][col] <= rows[i + 1][col]

Descending(rows, col) == \A i \in 1..(Len(rows) - 1) : rows[i][col] >= rows[i + 1][col]

\* C25: in every top-N chart of the two overview pages the selected rows
\* are in ascending order of the charted metric.
C25_ResortedAscending ==
    TopNPage => \A c \in PageCharts : Ascending(charts[c], ChartCol(c))

\* C25, amended: the rows of a chart of the n largest values are in
\* ascending order of the charted metric, the rows of a chart of the n
\* smallest values in descending order.
C25_ResortedByDirection ==
    TopNPage =>
        \A c \in PageCharts :
            IF c \in LargestCharts
            THEN Ascending(charts[c], ChartCol(c))
            ELSE Descending(charts[c], ChartCol(c))

\* Both the 'most expensive' and the 'cheapest' chart have rows of
\* different values of the charted metric.
C25_Witness ==
    /\ NumberOffered
    /\ error = "none"
    /\ Len(charts.most_expensive) >= 2
    /\ charts.most_expensive[1][sel.metric_for_use]
           < charts.most_expensive[2][sel.metric_for_use]
    /\ Len(charts.cheapest) >= 2
    /\ charts.cheapest[1][sel.metric_for_use] > charts.cheapest[2][sel.metric_for_use]

\* C26: in the loaded sales panel a row has rank 0 exactly when its price
\* type is Predicted, also when another municipality has a row of another
\* price type for the same year.
C26_RankZeroIffPredicted ==
    Loaded =>
        \A j \in 1..Len(sales_data) :
            (sales_data[j].Recency = 0) <=> (sales_data[j].PriceType = Predicted)

(***************************************************************************)
(* Properties of the change-type summary.                                  *)
(***************************************************************************)
\* The municipalities the summary counts.
CountedMncps == Range(data_to_display.index) \ {NationalAverage}

\* The change of m is undefined: the base value is 0, or the base or the
\* reference value is missing.
UndefinedChange(m) ==
    \/ ~HasRow(m, sel.base_year)
    \/ ~HasRow(m, sel.ref_year)
    \/ ValueOf(m, sel.base_year) = 0

\* The number of municipalities the summary counts under a change type.
CountedAs(type) ==
    LET rows == {j \in 1..Len(charts.data_for_chart) :
                    charts.data_for_chart[j].ChangeType = type}
    IN  IF rows = {} THEN 0
        ELSE charts.data_for_chart[CHOOSE j \in rows : TRUE].NumberOfMunicipalities

\* C27: the municipalities counted under 'Unknown change' are the
\* municipalities whose change is undefined: none of them is counted as an
\* increase, a decrease or no change.
C27_UndefinedCountedUnknown ==
    (HistPage /\ error = "none") =>
        CountedAs(<<"Unknown change">>)
            = Cardinality({m \in CountedMncps : UndefinedChange(m)})

\* The change types of the summary, in its order.
SummaryTypes ==
    [j \in 1..Len(charts.data_for_chart) |-> charts.data_for_chart[j].ChangeType]

\* The change type of a municipality of the table, from its "% change".
TypeOf(m) == ChangeType(PctOf(m), TxtForTitle(sel.metric_for_use))

\* C28: the summary has one row per change type that occurs among the
\* municipalities of the table other than the national average, the row of
\* a type counts the municipalities of that type, and the counts sum to
\* the number of such municipalities.
C28_CountsPartitionMunicipalities ==
    (HistPage /\ error = "none") =>
        /\ \A i, j \in 1..Len(SummaryTypes) : i # j => SummaryTypes[i] # SummaryTypes[j]
        /\ Range(SummaryTypes) = {TypeOf(m) : m \in CountedMncps}
        /\ \A t \in Range(SummaryTypes) :
               CountedAs(t) = Cardinality({m \in CountedMncps : TypeOf(m) = t})
        /\ LET sum[j \in 0..Len(charts.data_for_chart)] ==
                   IF j = 0 THEN 0
                   ELSE sum[j - 1] + charts.data_for_chart[j].NumberOfMunicipalities
           IN  sum[Len(charts.data_for_chart)] = Cardinality(CountedMncps)

\* Two municipalities of different change types next to the national
\* average, which is not counted.
C28_Witness ==
    /\ HistPage
    /\ error = "none"
    /\ NationalAverage \in Range(data_to_display.index)
    /\ Cardinality(CountedMncps) = 2
    /\ Len(charts.data_for_chart) = 2
    /\ \A j \in 1..2 : charts.data_for_chart[j].NumberOfMunicipalities = 1

(***************************************************************************)
(* Properties of the composition of the filters.                           *)
(***************************************************************************)
\* The row passes the three filters of the page.
Qualifies(r) ==
    /\ r.Recency <= sel.n_years
    /\ r.Municipality \in sel.selected_locations
    /\ r.PriceType \in sel.price_types

\* The dataset filtered in each of the six orders of the three filters.
FilterOrders(df) ==
    LET R(x) == FilterRecency(x, sel.n_years)
        L(x) == FilterLocations(x, sel.selected_locations)
        P(x) == FilterPriceTypes(x, sel.price_types)
    IN  {P(L(R(df))), L(P(R(df))), P(R(L(df))), R(P(L(df))), L(R(P(df))), R(L(P(df)))}

\* C29: the view of a by-municipality page has exactly the rows of the
\* dataset that pass the recency, the municipality and the price-type
\* test, each as often as the dataset has it and no other row, and the
\* three filters give these rows in every order of application.
C29_ViewIsConjunction ==
    (page \in ByMncpPages) =>
        LET expected == SelectSeq(sales_data, Qualifies)
        IN  /\ Len(data_to_display) = Len(expected)
            /\ \A r \in Range(sales_data) \cup Range(data_to_display) :
                   Cardinality({i \in 1..Len(data_to_display) :
                                   RowKey(data_to_display[i]) = RowKey(r)})
                       = Cardinality({j \in 1..Len(expected) :
                                         RowKey(expected[j]) = RowKey(r)})
            /\ FilterOrders(sales_data) = {expected}

\* A row passes, a row is removed by the recency filter alone and a row by
\* the municipality filter alone.
C29_Witness ==
    /\ page \in ByMncpPages
    /\ Len(data_to_display) > 0
    /\ \E a, b \in Range(sales_data) :
           /\ a.Recency > sel.n_years
           /\ a.Municipality \in sel.selected_locations
           /\ a.PriceType \in sel.price_types
           /\ b.Recency <= sel.n_years
           /\ b.Municipality \notin sel.selected_locations
           /\ b.PriceType \in sel.price_types
====
